---------------------------- MODULE Spec2Model ----------------------------
(***************************************************************************)
(* Model of Streamlit_app.py: convert_less_than, preprocess_data and       *)
(* perform_clustering.                                                     *)
(*                                                                         *)
(* Numbers are exact rationals n/d.  Text is a sequence of one-character   *)
(* strings.  Every table cell is a record [t, s, n, d]:                    *)
(*   t = "str"    a Python str, its characters in s                        *)
(*   t = "num"    the number n/d (d > 0, lowest terms)                     *)
(*   t = "nan"    float NaN (pandas' missing value)                        *)
(*   t = "none"   Python None                                              *)
(*   t = "ninf"   float -inf                                               *)
(*   t = "log1p"  the real number ln(1 + n/d), n/d > -1 and n/d # 0        *)
(*   t = "frac"   (ln(1+n/d) - ln(1+lo)) / (ln(1+hi) - ln(1+lo)) for the   *)
(*                column's own lo < n/d < hi: a real strictly in (0,1)     *)
(*   t = "unset"  a local that has not been assigned yet                   *)
(***************************************************************************)
EXTENDS Integers, Sequences, FiniteSets, TLC

VARIABLES
    value,          \* convert_less_than: the argument
    ret,            \* convert_less_than: the returned value
    raw,            \* preprocess_data: the table passed in
    df,             \* preprocess_data: local df
    df_numeric,     \* preprocess_data: local df_numeric
    high_skew_cols, \* preprocess_data: local high_skew_cols
    df_scaled,      \* preprocess_data: the returned table
    pc,             \* preprocess_data: the statement to run next
    outcome,        \* preprocess_data: "running", "returned" or the exception
    args,           \* perform_clustering: the arguments of the call
    df_pca,         \* perform_clustering: local df_pca
    labels,         \* perform_clustering: local labels
    cluster_centers,\* perform_clustering: local cluster_centers
    fitted,         \* perform_clustering: the clustering models fitted so far
    result,         \* perform_clustering: the returned tuple
    cpc,            \* perform_clustering: the statement to run next
    coutcome        \* perform_clustering: "running", "returned" or "raised"

cvVars  == <<value, ret>>
preVars == <<raw, df, df_numeric, high_skew_cols, df_scaled, pc, outcome>>
clVars  == <<args, df_pca, labels, cluster_centers, fitted, result, cpc, coutcome>>
vars    == <<cvVars, preVars, clVars>>

(***************************************************************************)
(* Bounds of the model.                                                    *)
(***************************************************************************)
MaxLen == 4         \* longest enumerated text handed to convert_less_than
MaxRows == 6        \* most rows of a raw table
MaxSamples == 4     \* most rows of a feature matrix handed to perform_clustering
MaxFeatures == 3    \* most columns of it, and the largest n_components tried
MaxClusters == 3    \* largest k tried, and the most cluster ids a free-k fit uses

(***************************************************************************)
(* Exact rational arithmetic.                                              *)
(***************************************************************************)
Abs(x) == IF x < 0 THEN -x ELSE x

RECURSIVE GCD(_, _)
GCD(a, b) == IF b = 0 THEN Abs(a) ELSE GCD(b, a % b)

Cell(t, s, n, d) == [t |-> t, s |-> s, n |-> n, d |-> d]

Num(n, d) ==
    LET sgn == IF d < 0 THEN -1 ELSE 1
        g   == GCD(Abs(n), Abs(d))
    IN  Cell("num", <<>>, (sgn * n) \div g, (sgn * d) \div g)

Str(s) == Cell("str", s, 0, 1)
NaN    == Cell("nan", <<>>, 0, 1)
None   == Cell("none", <<>>, 0, 1)
NegInf == Cell("ninf", <<>>, 0, 1)
Unset  == Cell("unset", <<>>, 0, 1)

RSub(a, b) == Num(a.n * b.d - b.n * a.d, a.d * b.d)
RDiv(a, b) == Num(a.n * b.d, a.d * b.n)
RLess(a, b) == a.n * b.d < b.n * a.d

(***************************************************************************)
(* Text.                                                                   *)
(***************************************************************************)
Digits == {"0", "1", "2", "3", "4", "5", "6", "7", "8", "9"}

DigitVal(c) ==
    CASE c = "0" -> 0 [] c = "1" -> 1 [] c = "2" -> 2 [] c = "3" -> 3
      [] c = "4" -> 4 [] c = "5" -> 5 [] c = "6" -> 6 [] c = "7" -> 7
      [] c = "8" -> 8 [] c = "9" -> 9

IsDigit(c) == c \in Digits

RECURSIVE Pow10(_)
Pow10(k) == IF k = 0 THEN 1 ELSE 10 * Pow10(k - 1)

\* int() of a text made of digits only, most significant digit first.
RECURSIVE IntOf(_)
IntOf(s) ==
    IF s = <<>> THEN 0
    ELSE 10 * IntOf(SubSeq(s, 1, Len(s) - 1)) + DigitVal(s[Len(s)])

CountOf(s, c) == Cardinality({i \in 1..Len(s) : s[i] = c})

\* str.startswith("<")
StartsWithLt(s) == Len(s) >= 1 /\ s[1] = "<"

\* re.sub(r'[^\d.]', '', value): every character that is neither a digit
\* nor a dot is deleted.
ReSubNonNumeric(s) == SelectSeq(s, LAMBDA c : IsDigit(c) \/ c = ".")

\* float(text) for a text of digits and dots: ValueError unless there is at
\* least one digit and at most one dot.
FloatRaises(s) ==
    \/ CountOf(s, ".") > 1
    \/ \A i \in 1..Len(s) : ~IsDigit(s[i])

\* float(text) when it does not raise.
FloatOf(s) ==
    LET dot  == IF \E i \in 1..Len(s) : s[i] = "."
                THEN CHOOSE i \in 1..Len(s) : s[i] = "."
                ELSE Len(s) + 1
        whole == SubSeq(s, 1, dot - 1)
        frac  == SubSeq(s, dot + 1, Len(s))
    IN  Num(IntOf(whole \o frac), Pow10(Len(frac)))

(***************************************************************************)
(* convert_less_than(value)                                                *)
(***************************************************************************)
\* convert_less_than returning the threshold itself instead of half of it.
convert_less_than_unhalved(v) ==
    IF v.t = "str" /\ StartsWithLt(v.s)
    THEN LET text == ReSubNonNumeric(v.s)
         IN  IF FloatRaises(text) THEN None ELSE FloatOf(text)
    ELSE v

convert_less_than(v) ==
    IF v.t = "str" /\ StartsWithLt(v.s)
    THEN LET text == ReSubNonNumeric(v.s)
         IN  IF FloatRaises(text)
             THEN None
             ELSE RDiv(FloatOf(text), Num(2, 1))
    ELSE v

(***************************************************************************)
(* Tables.  A table is [index, cols]: the row labels, and for each column  *)
(* name the cells of the column, one per row.  A column name is a pair     *)
(* <<base, suffix>>; the suffix is empty except for the indicator columns  *)
(* named by OneHotEncoder.get_feature_names_out.                           *)
(***************************************************************************)
ColSampleNo == <<"Sample No", <<>>>>
ColDates    == <<"Dates", <<>>>>
ColZone     == <<"Water Control Zone", <<>>>>
ColStation  == <<"Station", <<>>>>
ColDepth    == <<"Depth", <<>>>>
ColMeasure  == <<"Turbidity", <<>>>>

ZoneIndicator(cat) == <<"Water Control Zone_", cat>>

NoTable == [index |-> <<>>, cols |-> [c \in {} |-> <<>>]]

Columns(t) == DOMAIN t.cols
NRows(t)   == Len(t.index)

DropColumns(t, names) ==
    [index |-> t.index, cols |-> [c \in Columns(t) \ names |-> t.cols[c]]]

SetColumn(t, name, cells) ==
    [index |-> t.index,
     cols  |-> [c \in Columns(t) \cup {name} |->
                    IF c = name THEN cells ELSE t.cols[c]]]

SeqRange(s) == {s[i] : i \in 1..Len(s)}

(***************************************************************************)
(* Line 26: df.drop(columns=['Sample No', 'Dates'], errors='ignore')       *)
(***************************************************************************)
DropIdColumns(t) == DropColumns(t, {ColSampleNo, ColDates})

(***************************************************************************)
(* Lines 30-32: OneHotEncoder(drop='first') on the zone column, joined     *)
(* back on the row labels.                                                 *)
(***************************************************************************)
\* Code point order of the characters that occur in category names.
Chars == <<" ", "1", "2", "3", "A", "B", "C", "D", "M", "S",
           "a", "c", "d", "e", "f", "i", "l", "m", "o", "p", "r", "t", "u", "w">>

Ord(c) == CHOOSE i \in 1..Len(Chars) : Chars[i] = c

\* Python's str ordering.
RECURSIVE StrLess(_, _)
StrLess(a, b) ==
    IF b = <<>> THEN FALSE
    ELSE IF a = <<>> THEN TRUE
    ELSE IF a[1] = b[1] THEN StrLess(Tail(a), Tail(b))
    ELSE Ord(a[1]) < Ord(b[1])

\* encoder.categories_[0]: the distinct zone texts; the first in sorted
\* order is the one drop='first' leaves out.
ZoneCategories(t) == {c.s : c \in SeqRange(t.cols[ColZone])}

FirstCategory(cats) == CHOOSE a \in cats : \A b \in cats \ {a} : StrLess(a, b)

KeptCategories(t) ==
    LET cats == ZoneCategories(t) IN cats \ {FirstCategory(cats)}

\* encoder.fit_transform(...): row i of the column for category cat.
OneHot(t, cat) ==
    [i \in 1..NRows(t) |->
        IF t.cols[ColZone][i].s = cat THEN Num(1, 1) ELSE Num(0, 1)]

\* DataFrame.join: a left join of df's row labels against the RangeIndex
\* 0..n-1 of encoded_df; a label with no match gets NaN.
JoinCell(t, encoded, i) ==
    LET label == t.index[i]
    IN  IF label \in 0..(Len(encoded) - 1) THEN encoded[label + 1] ELSE NaN

\* The join done as an inner join: a row whose label has no match is lost.
JoinEncodedInner(t) ==
    LET rest  == DropColumns(t, {ColZone})
        kept  == KeptCategories(t)
        new   == {ZoneIndicator(cat) : cat \in kept}
        match == SelectSeq([i \in 1..NRows(t) |-> i],
                           LAMBDA i : t.index[i] \in 0..(NRows(t) - 1))
    IN  [index |-> [r \in 1..Len(match) |-> t.index[match[r]]],
         cols  |-> [c \in Columns(rest) \cup new |->
                        [r \in 1..Len(match) |->
                            IF c \in new
                            THEN OneHot(t, c[2])[t.index[match[r]] + 1]
                            ELSE rest.cols[c][match[r]]]]]

JoinEncoded(t) ==
    LET rest == DropColumns(t, {ColZone})
        kept == KeptCategories(t)
        new  == {ZoneIndicator(cat) : cat \in kept}
    IN  [index |-> t.index,
         cols  |-> [c \in Columns(rest) \cup new |->
                        IF c \in new
                        THEN [i \in 1..NRows(t) |-> JoinCell(t, OneHot(t, c[2]), i)]
                        ELSE rest.cols[c]]]

(***************************************************************************)
(* Line 33: df['Station'].map(df['Station'].value_counts(normalize=True))  *)
(***************************************************************************)
ValueCount(cells, v) == Cardinality({i \in 1..Len(cells) : cells[i] = v})

\* value_counts without normalize=True: counts instead of fractions.
StationCount(cells) ==
    [i \in 1..Len(cells) |-> Num(ValueCount(cells, cells[i]), 1)]

StationFrequency(cells) ==
    [i \in 1..Len(cells) |-> Num(ValueCount(cells, cells[i]), Len(cells))]

(***************************************************************************)
(* Lines 34-35: depth_order and df['Depth'].map(depth_order)               *)
(***************************************************************************)
SurfaceWater == <<"S", "u", "r", "f", "a", "c", "e", " ", "W", "a", "t", "e", "r">>
MiddleWater  == <<"M", "i", "d", "d", "l", "e", " ", "W", "a", "t", "e", "r">>
BottomWater  == <<"B", "o", "t", "t", "o", "m", " ", "W", "a", "t", "e", "r">>

depth_order(c) ==
    IF c.t # "str" THEN NaN
    ELSE IF c.s = SurfaceWater THEN Num(0, 1)
    ELSE IF c.s = MiddleWater  THEN Num(1, 1)
    ELSE IF c.s = BottomWater  THEN Num(2, 1)
    ELSE NaN

MapDepth(cells) == [i \in 1..Len(cells) |-> depth_order(cells[i])]

(***************************************************************************)
(* Lines 38-41: the object columns go through convert_less_than and        *)
(* pd.to_numeric(errors='coerce').                                         *)
(***************************************************************************)
\* select_dtypes(include=['object']): a column holding a str or None.
IsObjectColumn(cells) == \E i \in 1..Len(cells) : cells[i].t \in {"str", "none"}

ObjectColumns(t) == {c \in Columns(t) : IsObjectColumn(t.cols[c])}

\* pd.to_numeric on one text: an optional sign, then digits with at most
\* one dot; anything else is coerced to NaN.
ToNumericText(s) ==
    LET neg  == Len(s) >= 1 /\ s[1] = "-"
        body == IF neg THEN Tail(s) ELSE s
    IN  IF \/ \E i \in 1..Len(body) : ~(IsDigit(body[i]) \/ body[i] = ".")
           \/ FloatRaises(body)
        THEN NaN
        ELSE IF neg THEN RSub(Num(0, 1), FloatOf(body)) ELSE FloatOf(body)

to_numeric(c) ==
    CASE c.t = "num"  -> c
      [] c.t = "str"  -> ToNumericText(c.s)
      [] OTHER        -> NaN

ConvertObjectColumns(t) ==
    LET obj == ObjectColumns(t)
    IN  [index |-> t.index,
         cols  |-> [c \in Columns(t) |->
                        IF c \in obj
                        THEN [i \in 1..NRows(t) |->
                                 to_numeric(convert_less_than(t.cols[c][i]))]
                        ELSE t.cols[c]]]

(***************************************************************************)
(* Lines 42-44: scipy.stats.skew per column and the threshold.             *)
(***************************************************************************)
RECURSIVE SumSeq(_)
SumSeq(s) == IF s = <<>> THEN 0 ELSE s[1] + SumSeq(Tail(s))

RECURSIVE LCMDen(_)
LCMDen(cells) ==
    IF cells = <<>> THEN 1
    ELSE LET l == LCMDen(Tail(cells))
         IN  (l \div GCD(l, cells[1].d)) * cells[1].d

RECURSIVE GCDSeq(_)
GCDSeq(s) == IF s = <<>> THEN 0 ELSE GCD(s[1], GCDSeq(Tail(s)))

\* a/b < c/d for positive a, b, c, d, by comparing continued fractions: no
\* product is formed.
RECURSIVE FracLess(_, _, _, _)
FracLess(a, b, c, d) ==
    LET qa == a \div b
        qc == c \div d
        ra == a % b
        rc == c % d
    IN  IF qa # qc THEN qa < qc
        ELSE IF rc = 0 THEN FALSE
        ELSE IF ra = 0 THEN TRUE
        ELSE FracLess(d, rc, b, ra)

\* The sample skewness g1 = m3 / m2^(3/2) of a column, kept as the sums it
\* is made of: with dev[i] a common positive multiple of x[i] - mean,
\* g1 = sqrt(n) * s3 / s2^(3/2), s2 = sum dev^2, s3 = sum dev^3.  The
\* result is nan when a value is missing and when all values are equal.
skew(cells) ==
    LET n    == Len(cells)
        L    == LCMDen(cells)
        x    == [i \in 1..n |-> cells[i].n * (L \div cells[i].d)]
        sum  == SumSeq(x)
        dev0 == [i \in 1..n |-> n * x[i] - sum]
        g    == GCDSeq(dev0)
        dev  == [i \in 1..n |-> dev0[i] \div g]
    IN  IF \E i \in 1..n : cells[i].t # "num"
        THEN [nan |-> TRUE, n |-> n, s2 |-> 0, s3 |-> 0]
        ELSE IF g = 0
        THEN [nan |-> TRUE, n |-> n, s2 |-> 0, s3 |-> 0]
        ELSE [nan |-> FALSE, n |-> n,
              s2 |-> SumSeq([i \in 1..n |-> dev[i] * dev[i]]),
              s3 |-> SumSeq([i \in 1..n |-> dev[i] * dev[i] * dev[i]])]

\* The threshold taken as 0: every right-skewed column is transformed.
SkewAboveZero(sk) == ~sk.nan /\ sk.s3 > 0

\* skew_values_before > 1: g1 > 1 iff s3 > 0 and n * s3^2 > s2^3, that is
\* s2^2 / s3 < n * s3 / s2.  A nan compares False.
SkewAboveThreshold(sk) ==
    /\ ~sk.nan
    /\ sk.s3 > 0
    /\ FracLess(sk.s2 * sk.s2, sk.s3, sk.n * sk.s3, sk.s2)

HighSkewColumns(t) == {c \in Columns(t) : SkewAboveThreshold(skew(t.cols[c]))}

(***************************************************************************)
(* Line 45: np.log1p on the high-skew columns.                             *)
(***************************************************************************)
log1p(c) ==
    IF c.t # "num" THEN NaN
    ELSE IF c.n + c.d < 0 THEN NaN
    ELSE IF c.n + c.d = 0 THEN NegInf
    ELSE IF c.n = 0 THEN Num(0, 1)
    ELSE Cell("log1p", <<>>, c.n, c.d)

ApplyLog1p(t, high) ==
    [index |-> t.index,
     cols  |-> [c \in Columns(t) |->
                    IF c \in high
                    THEN [i \in 1..NRows(t) |-> log1p(t.cols[c][i])]
                    ELSE t.cols[c]]]

(***************************************************************************)
(* Lines 46-47: MinMaxScaler().fit_transform, wrapped in a new DataFrame.  *)
(* The scaler computes in IEEE-754 binary64, and so does this section.  A  *)
(* natural number is a sequence of limbs, least significant first, with    *)
(* no zero limb at the top; a double is the cell sign * m * 2^e with the   *)
(* mantissa m in s, the sign (-1, 0, 1) in n and the exponent e in d, m    *)
(* odd.  The values met here are far from overflow and underflow.          *)
(***************************************************************************)
Base == 32768
LimbBits == 15
MantissaBits == 53

RECURSIVE BigTrim(_)
BigTrim(a) ==
    IF a = <<>> THEN <<>>
    ELSE IF a[Len(a)] = 0 THEN BigTrim(SubSeq(a, 1, Len(a) - 1))
    ELSE a

RECURSIVE BigOfInt(_)
BigOfInt(n) == IF n = 0 THEN <<>> ELSE <<n % Base>> \o BigOfInt(n \div Base)

Low(a)  == IF a = <<>> THEN 0 ELSE a[1]
Rest(a) == IF a = <<>> THEN <<>> ELSE Tail(a)

RECURSIVE BigAddCarry(_, _, _)
BigAddCarry(a, b, c) ==
    IF a = <<>> /\ b = <<>> THEN (IF c = 0 THEN <<>> ELSE <<c>>)
    ELSE LET x == Low(a) + Low(b) + c
         IN  <<x % Base>> \o BigAddCarry(Rest(a), Rest(b), x \div Base)

BigAdd(a, b) == BigAddCarry(a, b, 0)

RECURSIVE BigSubBorrow(_, _, _)
BigSubBorrow(a, b, c) ==
    IF a = <<>> THEN <<>>
    ELSE LET x == a[1] - Low(b) - c
         IN  <<(x + Base) % Base>>
                 \o BigSubBorrow(Tail(a), Rest(b), IF x < 0 THEN 1 ELSE 0)

\* a - b for a >= b
BigSub(a, b) == BigTrim(BigSubBorrow(a, b, 0))

RECURSIVE BigLess(_, _)
BigLess(a, b) ==
    IF Len(a) # Len(b) THEN Len(a) < Len(b)
    ELSE IF a = <<>> THEN FALSE
    ELSE IF a[Len(a)] # b[Len(b)] THEN a[Len(a)] < b[Len(b)]
    ELSE BigLess(SubSeq(a, 1, Len(a) - 1), SubSeq(b, 1, Len(b) - 1))

\* a * x + c for one limb x >= 1 and a carry c
RECURSIVE BigMulLimb(_, _, _)
BigMulLimb(a, x, c) ==
    IF a = <<>> THEN (IF c = 0 THEN <<>> ELSE <<c>>)
    ELSE LET p == a[1] * x + c
         IN  <<p % Base>> \o BigMulLimb(Tail(a), x, p \div Base)

RECURSIVE BigMulLimbs(_, _)
BigMulLimbs(a, b) ==
    IF a = <<>> THEN <<>>
    ELSE BigAdd(IF a[1] = 0 THEN <<>> ELSE BigMulLimb(b, a[1], 0),
                IF Tail(a) = <<>> THEN <<>>
                ELSE <<0>> \o BigMulLimbs(Tail(a), b))

BigMul(a, b) == IF b = <<>> THEN <<>> ELSE BigTrim(BigMulLimbs(a, b))

\* quotient (as many limbs as a) and remainder of a by one limb d
RECURSIVE BigDivLimb(_, _)
BigDivLimb(a, d) ==
    IF a = <<>> THEN [q |-> <<>>, r |-> 0]
    ELSE LET hi == BigDivLimb(Tail(a), d)
             x  == hi.r * Base + a[1]
         IN  [q |-> <<x \div d>> \o hi.q, r |-> x % d]

RECURSIVE IntBitLen(_)
IntBitLen(n) == IF n = 0 THEN 0 ELSE 1 + IntBitLen(n \div 2)

BitLen(a) ==
    IF a = <<>> THEN 0 ELSE LimbBits * (Len(a) - 1) + IntBitLen(a[Len(a)])

BigShl(a, k) ==
    IF a = <<>> THEN <<>>
    ELSE [i \in 1..(k \div LimbBits) |-> 0]
             \o BigMulLimb(a, 2 ^ (k % LimbBits), 0)

BigShr(a, k) ==
    LET w == k \div LimbBits
    IN  IF w >= Len(a) THEN <<>>
        ELSE BigTrim(BigDivLimb(SubSeq(a, w + 1, Len(a)),
                                2 ^ (k % LimbBits)).q)

RECURSIVE IntTrailingZeros(_)
IntTrailingZeros(n) == IF n % 2 = 1 THEN 0 ELSE 1 + IntTrailingZeros(n \div 2)

\* for a # 0
RECURSIVE TrailingZeros(_)
TrailingZeros(a) ==
    IF a[1] = 0 THEN LimbBits + TrailingZeros(Tail(a))
    ELSE IntTrailingZeros(a[1])

\* the largest limb t with t * D <= x, for x < D * Base: one bit of t at a
\* time from the top, acc the bits settled
RECURSIVE QuotientLimb(_, _, _, _)
QuotientLimb(x, D, bit, acc) ==
    IF bit < 0 THEN acc
    ELSE LET t == acc + 2 ^ bit
         IN  IF BigLess(x, BigMulLimb(D, t, 0))
             THEN QuotientLimb(x, D, bit - 1, acc)
             ELSE QuotientLimb(x, D, bit - 1, t)

\* one step of schoolbook division by D # 0: the next limb of the dividend
\* is brought down to the remainder of the limbs above it
BigDivStep(above, limb, D) ==
    LET part  == BigTrim(<<limb>> \o above.r)
        digit == QuotientLimb(part, D, LimbBits - 1, 0)
    IN  [q |-> <<digit>> \o above.q,
         r |-> IF digit = 0 THEN part
               ELSE BigSub(part, BigMulLimb(D, digit, 0))]

RECURSIVE BigLongDiv(_, _)
BigLongDiv(N, D) ==
    IF N = <<>> THEN [q |-> <<>>, r |-> <<>>]
    ELSE BigDivStep(BigLongDiv(Tail(N), D), N[1], D)

\* for D # 0
BigDivMod(N, D) ==
    IF Len(D) = 1
    THEN LET x == BigDivLimb(N, D[1])
         IN  [q |-> BigTrim(x.q), r |-> BigOfInt(x.r)]
    ELSE LET x == BigLongDiv(N, D)
         IN  [q |-> BigTrim(x.q), r |-> x.r]

DoubleZero == Cell("f64", <<>>, 0, 0)
DoubleOne  == Cell("f64", <<1>>, 1, 0)

Canonical(sign, m, e) ==
    IF m = <<>> THEN DoubleZero
    ELSE LET z == TrailingZeros(m)
         IN  Cell("f64", BigShr(m, z), sign, e + z)

\* sign * N * 2^e rounded to the nearest double, ties to the even mantissa
RoundToDouble(sign, N, e) ==
    LET k    == BitLen(N) - MantissaBits
        q    == BigShr(N, k)
        r    == BigSub(N, BigShl(q, k))
        half == BigShl(<<1>>, k - 1)
        up   == BigLess(half, r) \/ (r = half /\ q[1] % 2 = 1)
    IN  IF k <= 0 THEN Canonical(sign, N, e)
        ELSE Canonical(sign, IF up THEN BigAdd(q, <<1>>) ELSE q, e + k)

DoubleNeg(a) == Cell("f64", a.s, -a.n, a.d)

DoubleAdd(a, b) ==
    LET e == IF a.d < b.d THEN a.d ELSE b.d
        A == BigShl(a.s, a.d - e)
        B == BigShl(b.s, b.d - e)
    IN  IF a.n = 0 THEN b
        ELSE IF b.n = 0 THEN a
        ELSE IF a.n = b.n THEN RoundToDouble(a.n, BigAdd(A, B), e)
        ELSE IF A = B THEN DoubleZero
        ELSE IF BigLess(B, A) THEN RoundToDouble(a.n, BigSub(A, B), e)
        ELSE RoundToDouble(b.n, BigSub(B, A), e)

DoubleSub(a, b) == DoubleAdd(a, DoubleNeg(b))

DoubleMul(a, b) ==
    IF a.n = 0 \/ b.n = 0 THEN DoubleZero
    ELSE RoundToDouble(a.n * b.n, BigMul(a.s, b.s), a.d + b.d)

\* a / b for b # 0: the quotient is taken to three bits more than a
\* mantissa holds, and a last bit tells whether a remainder is left
DoubleDiv(a, b) ==
    LET want == BitLen(b.s) + MantissaBits + 3 - BitLen(a.s)
        sh   == IF want > 0 THEN want ELSE 0
        x    == BigDivMod(BigShl(a.s, sh), b.s)
        N    == BigMulLimb(x.q, 2, IF x.r = <<>> THEN 0 ELSE 1)
    IN  IF a.n = 0 THEN DoubleZero
        ELSE RoundToDouble(a.n * b.n, N, a.d - sh - b.d - 1)

DoubleOfInt(n) ==
    Canonical(IF n < 0 THEN -1 ELSE 1, BigOfInt(Abs(n)), 0)

\* The double a column holds where the exact value is n/d: every such
\* value is an integer, a parsed text or one division of two integers.
DoubleOf(c) == DoubleDiv(DoubleOfInt(c.n), DoubleOfInt(c.d))

\* check_array(force_all_finite='allow-nan'): NaN passes, infinity raises.
ContainsInfinity(t) ==
    \E c \in Columns(t) : \E i \in 1..NRows(t) : t.cols[c][i].t = "ninf"

\* The argument of a cell: x for the number x and for ln(1+x); ln(1+x) is
\* increasing, so cells of one column are ordered as their arguments are.
Arg(c) == Num(c.n, c.d)

Observed(cells) == {i \in 1..Len(cells) : cells[i].t # "nan"}

\* np.nanmin / np.nanmax over the column.
DataMin(cells) ==
    Arg(cells[CHOOSE i \in Observed(cells) :
                \A j \in Observed(cells) : ~RLess(Arg(cells[j]), Arg(cells[i]))])
DataMax(cells) ==
    Arg(cells[CHOOSE i \in Observed(cells) :
                \A j \in Observed(cells) : ~RLess(Arg(cells[i]), Arg(cells[j]))])

IsLogColumn(cells) == \E i \in 1..Len(cells) : cells[i].t = "log1p"

\* fit: data_range = data_max - data_min, scale_ = 1 / data_range (1 when
\* the range is 0, _handle_zeros_in_scale), min_ = 0 - data_min * scale_.
ScaleOf(lo, hi) ==
    LET data_range == DoubleSub(DoubleOf(hi), DoubleOf(lo))
    IN  IF data_range.n = 0 THEN DoubleOne ELSE DoubleDiv(DoubleOne, data_range)

MinOf(lo, scale_) == DoubleSub(DoubleZero, DoubleMul(DoubleOf(lo), scale_))

\* transform: X *= scale_, X += min_.
ScaleNumber(x, scale_, min_) == DoubleAdd(DoubleMul(DoubleOf(x), scale_), min_)

\* A column of logarithms: the logarithms are not computed, and the column
\* is scaled as the reals are, to 0 and 1 at the two ends and to a real
\* strictly between elsewhere.
ScaleLog(c, lo, hi) ==
    IF Arg(c) = lo THEN DoubleZero
    ELSE IF Arg(c) = hi THEN DoubleOne
    ELSE Cell("frac", <<>>, c.n, c.d)

ScaleColumn(cells) ==
    IF Observed(cells) = {} THEN cells
    ELSE LET lo     == DataMin(cells)
             hi     == DataMax(cells)
             scale_ == ScaleOf(lo, hi)
             min_   == MinOf(lo, scale_)
         IN  [i \in 1..Len(cells) |->
                IF cells[i].t = "nan" THEN NaN
                ELSE IF IsLogColumn(cells) THEN ScaleLog(cells[i], lo, hi)
                ELSE ScaleNumber(cells[i], scale_, min_)]

\* pd.DataFrame(scaler.fit_transform(df_numeric), columns=...): the result
\* carries a fresh RangeIndex.
MinMaxScale(t) ==
    [index |-> [i \in 1..NRows(t) |-> i - 1],
     cols  |-> [c \in Columns(t) |-> ScaleColumn(t.cols[c])]]

(***************************************************************************)
(* The raw tables the model feeds to preprocess_data.                      *)
(***************************************************************************)
Row(zone, station, depth, meas) ==
    [zone |-> Str(zone), station |-> Str(station), depth |-> Str(depth), meas |-> meas]

RowCatalog ==
    << Row(<<"A">>, <<"S", "1">>, SurfaceWater, Str(<<"<", "2">>)),
       Row(<<"B">>, <<"S", "1">>, BottomWater,  Str(<<"4">>)),
       Row(<<"A">>, <<"S", "2">>, MiddleWater,  Str(<<"6">>)),
       Row(<<"B">>, <<"S", "2">>, <<"D", "e", "e", "p">>, Str(<<"<", "a">>)),
       Row(<<"A">>, <<"S", "1">>, SurfaceWater, Num(-1, 1)),
       Row(<<"C">>, <<"S", "3">>, SurfaceWater, Str(<<"-", "3">>)) >>

\* The rows of a table are catalog rows, taken in catalog order (a row may
\* repeat): every step of preprocess_data treats the rows alike.
RowChoices(n) ==
    {pick \in [1..n -> 1..Len(RowCatalog)] :
        \A i \in 1..(n - 1) : pick[i] <= pick[i + 1]}

RequiredColumns == {ColZone, ColStation, ColDepth}
AllColumns == {ColSampleNo, ColDates, ColMeasure} \cup RequiredColumns

\* The columns a raw table may lack: none, any single one, or both of the
\* identifier and date columns.
MissingSets ==
    {{}} \cup {{c} : c \in AllColumns \ {ColMeasure}} \cup {{ColSampleNo, ColDates}}

\* Row labels: the RangeIndex of read_csv, or labels that start at 1.
IndexOffsets == {0, 1}

RawColumn(rows, c) ==
    [i \in 1..Len(rows) |->
        CASE c = ColSampleNo -> Num(i, 1)
          [] c = ColDates    -> Str(<<"2", "0", "2", "0">>)
          [] c = ColZone     -> rows[i].zone
          [] c = ColStation  -> rows[i].station
          [] c = ColDepth    -> rows[i].depth
          [] c = ColMeasure  -> rows[i].meas]

RawTable(rows, offset, missing) ==
    [index |-> [i \in 1..Len(rows) |-> offset + i - 1],
     cols  |-> [c \in AllColumns \ missing |-> RawColumn(rows, c)]]

(***************************************************************************)
(* Optional values: Python's None against a value that is there.           *)
(***************************************************************************)
Absent  == [some |-> FALSE]
Some(v) == [some |-> TRUE, v |-> v]

\* The state of perform_clustering when it is not being called.
ClusterIdle ==
    /\ args = Absent
    /\ df_pca = Absent /\ labels = Absent /\ cluster_centers = Absent
    /\ fitted = <<>> /\ result = Absent
    /\ cpc = "idle" /\ coutcome = "idle"

(***************************************************************************)
(* convert_less_than as a call on its own.                                 *)
(***************************************************************************)
Alphabet == {"<", "0", "1", ".", "a"}

Texts == UNION {[1..n -> Alphabet] : n \in 0..MaxLen}

Arguments ==
    {Str(s) : s \in Texts}
        \cup {Str(<<"<", "a", "b", "c", "1", ".", "0", "x", "y", "z">>),
              Str(<<"<", "2">>), Str(<<"<", "-", "5">>),
              Num(3, 1), Num(-1, 2), NaN, None}

InitConvert ==
    /\ value \in Arguments
    /\ ret = Unset
    /\ raw = NoTable /\ df = NoTable /\ df_numeric = NoTable
    /\ high_skew_cols = {} /\ df_scaled = NoTable
    /\ pc = "idle" /\ outcome = "idle"
    /\ ClusterIdle

CallConvert ==
    /\ ret = Unset
    /\ pc = "idle"
    /\ ret' = convert_less_than(value)
    /\ UNCHANGED <<value, preVars, clVars>>

NextConvert == CallConvert

SpecConvert == InitConvert /\ [][NextConvert]_vars

(***************************************************************************)
(* preprocess_data(df), statement by statement.                            *)
(***************************************************************************)
Init ==
    /\ \E n \in 0..MaxRows : \E pick \in RowChoices(n) :
         \E offset \in IndexOffsets : \E missing \in MissingSets :
            raw = RawTable([i \in 1..n |-> RowCatalog[pick[i]]], offset, missing)
    /\ df = raw
    /\ df_numeric = NoTable
    /\ high_skew_cols = {}
    /\ df_scaled = NoTable
    /\ pc = "drop"
    /\ outcome = "running"
    /\ value = Unset /\ ret = Unset
    /\ ClusterIdle

Raise(exc) ==
    /\ pc' = "done"
    /\ outcome' = exc

\* line 26
Drop ==
    /\ pc = "drop"
    /\ df' = DropIdColumns(df)
    /\ pc' = "encode_zone"
    /\ UNCHANGED <<raw, df_numeric, high_skew_cols, df_scaled, outcome, cvVars, clVars>>

\* lines 29-32: df[['Water Control Zone']] raises KeyError without the
\* column; OneHotEncoder.fit_transform raises ValueError on zero rows.
EncodeZone ==
    /\ pc = "encode_zone"
    /\ IF ColZone \notin Columns(df)
       THEN Raise("KeyError") /\ UNCHANGED df
       ELSE IF NRows(df) = 0
       THEN Raise("ValueError") /\ UNCHANGED df
       ELSE df' = JoinEncoded(df) /\ pc' = "encode_station" /\ UNCHANGED outcome
    /\ UNCHANGED <<raw, df_numeric, high_skew_cols, df_scaled, cvVars, clVars>>

\* Line 33 with a lookup that yields nothing for an absent column instead
\* of raising.
EncodeStationLenient ==
    /\ pc = "encode_station"
    /\ IF ColStation \notin Columns(df)
       THEN UNCHANGED df
       ELSE df' = SetColumn(df, ColStation, StationFrequency(df.cols[ColStation]))
    /\ pc' = "map_depth"
    /\ UNCHANGED <<raw, df_numeric, high_skew_cols, df_scaled, outcome, cvVars, clVars>>

\* line 33
EncodeStation ==
    /\ pc = "encode_station"
    /\ IF ColStation \notin Columns(df)
       THEN Raise("KeyError") /\ UNCHANGED df
       ELSE /\ df' = SetColumn(df, ColStation, StationFrequency(df.cols[ColStation]))
            /\ pc' = "map_depth"
            /\ UNCHANGED outcome
    /\ UNCHANGED <<raw, df_numeric, high_skew_cols, df_scaled, cvVars, clVars>>

\* lines 34-35
MapDepthColumn ==
    /\ pc = "map_depth"
    /\ IF ColDepth \notin Columns(df)
       THEN Raise("KeyError") /\ UNCHANGED df
       ELSE /\ df' = SetColumn(df, ColDepth, MapDepth(df.cols[ColDepth]))
            /\ pc' = "convert"
            /\ UNCHANGED outcome
    /\ UNCHANGED <<raw, df_numeric, high_skew_cols, df_scaled, cvVars, clVars>>

\* lines 38-41
ConvertColumns ==
    /\ pc = "convert"
    /\ df' = ConvertObjectColumns(df)
    /\ pc' = "skew"
    /\ UNCHANGED <<raw, df_numeric, high_skew_cols, df_scaled, outcome, cvVars, clVars>>

\* lines 42-45
SkewCorrect ==
    /\ pc = "skew"
    /\ high_skew_cols' = HighSkewColumns(df)
    /\ df_numeric' = ApplyLog1p(df, HighSkewColumns(df))
    /\ pc' = "scale"
    /\ UNCHANGED <<raw, df, df_scaled, outcome, cvVars, clVars>>

\* lines 46-48
Scale ==
    /\ pc = "scale"
    /\ IF ContainsInfinity(df_numeric)
       THEN Raise("ValueError") /\ UNCHANGED df_scaled
       ELSE /\ df_scaled' = MinMaxScale(df_numeric)
            /\ pc' = "done"
            /\ outcome' = "returned"
    /\ UNCHANGED <<raw, df, df_numeric, high_skew_cols, cvVars, clVars>>

Next ==
    \/ Drop
    \/ EncodeZone
    \/ EncodeStation
    \/ MapDepthColumn
    \/ ConvertColumns
    \/ SkewCorrect
    \/ Scale

Spec == Init /\ [][Next]_vars

(***************************************************************************)
(* perform_clustering(df, algorithm, k, eps, min_samples, damping,         *)
(* preference, n_components).  The feature matrix is kept as its shape     *)
(* and whether all its entries are finite; the scikit-learn calls are      *)
(* kept as what they accept, what they raise on and the range of what      *)
(* they return.                                                            *)
(***************************************************************************)
Min(a, b) == IF a < b THEN a ELSE b

\* The names the if/elif chain of lines 55-89 compares against.
Recognised ==
    {"K-Means", "DBSCAN", "Mean Shift", "Gaussian Mixture",
     "Agglomerative Clustering", "OPTICS", "HDBSCAN", "Affinity Propagation",
     "BIRCH", "Spectral Clustering"}

\* Lines 51-52: PCA(n_components).fit_transform(df) raises ValueError on a
\* matrix with NaN and on n_components > min(n_samples, n_features);
\* n_components=None keeps min(n_samples, n_features) components.
PCARaises(X, n_components) ==
    \/ ~X.finite
    \/ n_components.some /\ n_components.v > Min(X.rows, X.cols)

PCAComponents(X, n_components) ==
    IF n_components.some THEN n_components.v ELSE Min(X.rows, X.cols)

\* The constructor arguments each branch hands to its model: a None for
\* one that the model requires makes the fit raise.
MissingArgument(a) ==
    CASE a.algorithm \in {"K-Means", "Gaussian Mixture",
                          "Agglomerative Clustering", "Spectral Clustering"}
                                          -> ~a.k.some
      [] a.algorithm = "DBSCAN"           -> ~a.eps.some \/ ~a.min_samples.some
      [] a.algorithm \in {"OPTICS", "HDBSCAN"}  -> ~a.min_samples.some
      [] a.algorithm = "Affinity Propagation" -> ~a.damping.some
      [] OTHER                            -> FALSE

\* The label values a fit may hand out: 0..k-1 for a model built with k,
\* the noise label -1 and cluster ids for the density-based models (and
\* for Affinity Propagation, which labels everything -1 when it does not
\* converge), cluster ids otherwise.
LabelValues(a) ==
    CASE a.algorithm \in {"K-Means", "Gaussian Mixture",
                          "Agglomerative Clustering", "Spectral Clustering"}
                                          -> 0..(a.k.v - 1)
      [] a.algorithm = "BIRCH" /\ a.k.some -> 0..(a.k.v - 1)
      [] a.algorithm \in {"DBSCAN", "OPTICS", "HDBSCAN", "Affinity Propagation"}
                                          -> -1..(MaxClusters - 1)
      [] OTHER                            -> 0..(MaxClusters - 1)

\* A model built with k clusters raises on fewer than k samples.
TooFewSamples(a, rows) ==
    /\ a.algorithm \in {"K-Means", "Gaussian Mixture", "Agglomerative Clustering",
                        "Spectral Clustering"}
    /\ a.k.v > rows

\* The Gaussian Mixture branch without its read of means_.
ExposesCentersNoMeans(algorithm) == algorithm \in {"K-Means", "Mean Shift"}

\* Lines 58, 66, 71: the branches that read cluster_centers_ or means_.
ExposesCenters(algorithm) ==
    algorithm \in {"K-Means", "Mean Shift", "Gaussian Mixture"}

DistinctLabels(ls) == {ls[i] : i \in 1..Len(ls)}

\* model.cluster_centers_ / model.means_: one center per cluster of a
\* fixed-k model, one per label found by Mean Shift.
Centers(a, ls, comps) ==
    [n   |-> IF a.algorithm = "Mean Shift"
             THEN Cardinality(DistinctLabels(ls)) ELSE a.k.v,
     dim |-> comps]

\* Line 94: len(set(labels)) > 1
MoreThanOneLabel(ls) == Cardinality(DistinctLabels(ls)) > 1

\* silhouette_score and davies_bouldin_score both start with
\* check_number_of_labels: ValueError unless 2 <= n_labels <= n_samples - 1.
ScoreRaises(ls) ==
    LET n_labels == Cardinality(DistinctLabels(ls))
    IN  ~(1 < n_labels /\ n_labels < Len(ls))

\* What the two scores can come to: the silhouette coefficient lies in
\* (-1, 1], the Davies-Bouldin index in [0, infinity).  Two pairs stand
\* for a poor and for a perfect partition.
ComputedScores ==
    {<<Num(-1, 2), Num(3, 2)>>, <<Num(1, 1), Num(0, 1)>>}

\* Line 98
Sentinel == Num(-1, 1)

\* Line 91
NoResult ==
    [df_pca |-> Absent, labels |-> Absent, silhouette |-> Absent,
     db_index |-> Absent, cluster_centers |-> Absent]

Algorithms == Recognised \cup {"Fuzzy C-Means"}

\* The arguments main passes (lines 131-135): a parameter is a number only
\* for the algorithms that use it, and None otherwise; here it may also be
\* None where it is used, and the algorithm need not be a recognised one.
OptionalOf(S) == {Absent} \cup {Some(v) : v \in S}

UsesK(algorithm) ==
    algorithm \in {"K-Means", "Gaussian Mixture", "Agglomerative Clustering",
                   "BIRCH", "Spectral Clustering", "Fuzzy C-Means"}

ArgumentsFor(algorithm) ==
    {[algorithm |-> algorithm, k |-> k, eps |-> eps, min_samples |-> ms,
      damping |-> da, preference |-> pr] :
        k  \in IF UsesK(algorithm) THEN OptionalOf(2..MaxClusters) ELSE {Absent},
        eps \in IF algorithm = "DBSCAN" THEN OptionalOf({Num(1, 2)}) ELSE {Absent},
        ms \in IF algorithm \in {"DBSCAN", "OPTICS", "HDBSCAN"}
               THEN OptionalOf({2}) ELSE {Absent},
        da \in IF algorithm = "Affinity Propagation"
               THEN OptionalOf({Num(9, 10)}) ELSE {Absent},
        pr \in IF algorithm = "Affinity Propagation"
               THEN OptionalOf({-50}) ELSE {Absent}}

InitCluster ==
    /\ \E rows \in 2..MaxSamples : \E cols \in 1..MaxFeatures :
         \E finite \in BOOLEAN : \E algorithm \in Algorithms :
           \E a \in ArgumentsFor(algorithm) :
             \E nc \in OptionalOf(1..MaxFeatures) :
               args = Some([df |-> [rows |-> rows, cols |-> cols, finite |-> finite],
                            n_components |-> nc] @@ a)
    /\ df_pca = Absent /\ labels = Absent /\ cluster_centers = Absent
    /\ fitted = <<>> /\ result = Absent
    /\ cpc = "pca" /\ coutcome = "running"
    /\ value = Unset /\ ret = Unset
    /\ raw = NoTable /\ df = NoTable /\ df_numeric = NoTable
    /\ high_skew_cols = {} /\ df_scaled = NoTable
    /\ pc = "idle" /\ outcome = "idle"

RaiseCluster ==
    /\ cpc' = "done"
    /\ coutcome' = "raised"

\* lines 51-53
ProjectPCA ==
    /\ cpc = "pca"
    /\ IF PCARaises(args.v.df, args.v.n_components)
       THEN RaiseCluster /\ UNCHANGED df_pca
       ELSE /\ df_pca' = Some([rows |-> args.v.df.rows,
                               comps |-> PCAComponents(args.v.df, args.v.n_components)])
            /\ cpc' = "dispatch"
            /\ UNCHANGED coutcome
    /\ cluster_centers' = Absent
    /\ UNCHANGED <<args, labels, fitted, result, cvVars, preVars>>

\* line 91
ReturnNoResult ==
    /\ cpc = "dispatch"
    /\ args.v.algorithm \notin Recognised
    /\ result' = Some(NoResult)
    /\ cpc' = "done"
    /\ coutcome' = "returned"
    /\ UNCHANGED <<args, df_pca, labels, cluster_centers, fitted, cvVars, preVars>>

\* lines 55-89, the fit raises
FitRaises ==
    /\ cpc = "dispatch"
    /\ args.v.algorithm \in Recognised
    /\ fitted' = Append(fitted, args.v.algorithm)
    /\ RaiseCluster
    /\ UNCHANGED <<args, df_pca, labels, cluster_centers, result, cvVars, preVars>>

\* lines 55-89, the fit returns labels
FitReturns ==
    /\ cpc = "dispatch"
    /\ args.v.algorithm \in Recognised
    /\ ~MissingArgument(args.v)
    /\ ~TooFewSamples(args.v, df_pca.v.rows)
    /\ \E ls \in [1..df_pca.v.rows -> LabelValues(args.v)] :
         /\ labels' = Some(ls)
         /\ cluster_centers' =
               IF ExposesCenters(args.v.algorithm)
               THEN Some(Centers(args.v, ls, df_pca.v.comps))
               ELSE cluster_centers
    /\ fitted' = Append(fitted, args.v.algorithm)
    /\ cpc' = "score"
    /\ UNCHANGED <<args, df_pca, result, coutcome, cvVars, preVars>>

Return(silhouette, db_index) ==
    /\ result' = Some([df_pca |-> df_pca, labels |-> labels,
                       silhouette |-> Some(silhouette), db_index |-> Some(db_index),
                       cluster_centers |-> cluster_centers])
    /\ cpc' = "done"
    /\ coutcome' = "returned"

\* lines 94-100
Score ==
    /\ cpc = "score"
    /\ IF MoreThanOneLabel(labels.v)
       THEN IF ScoreRaises(labels.v)
            THEN RaiseCluster /\ UNCHANGED result
            ELSE \E s \in ComputedScores : Return(s[1], s[2])
       ELSE Return(Sentinel, Sentinel)
    /\ UNCHANGED <<args, df_pca, labels, cluster_centers, fitted, cvVars, preVars>>

NextCluster ==
    \/ ProjectPCA
    \/ ReturnNoResult
    \/ FitRaises
    \/ FitReturns
    \/ Score

SpecCluster == InitCluster /\ [][NextCluster]_vars

(***************************************************************************)
(* Properties of convert_less_than, checked under SpecConvert.             *)
(***************************************************************************)
\* The number a text of digits with at most one dot denotes, times
\* 10^(digits after the dot): each digit weighted by its place.
PlaceValueSum(s) ==
    LET dots == {i \in 1..Len(s) : s[i] = "."}
        dot  == IF dots = {} THEN Len(s) + 1 ELSE CHOOSE i \in dots : TRUE
        term == [i \in 1..Len(s) |->
                    IF i = dot THEN 0
                    ELSE IF i < dot THEN DigitVal(s[i]) * Pow10(Len(s) - i - (IF dots = {} THEN 0 ELSE 1))
                    ELSE DigitVal(s[i]) * Pow10(Len(s) - i)]
    IN  SumSeq(term)

DigitsAfterDot(s) ==
    LET dots == {i \in 1..Len(s) : s[i] = "."}
    IN  IF dots = {} THEN 0 ELSE Len(s) - (CHOOSE i \in dots : TRUE)

\* The characters of s that are digits or dots, in order.
RECURSIVE KeepNumeric(_)
KeepNumeric(s) ==
    IF s = <<>> THEN <<>>
    ELSE IF s[1] \in Digits \cup {"."} THEN <<s[1]>> \o KeepNumeric(Tail(s))
    ELSE KeepNumeric(Tail(s))

Censored(v) == v.t = "str" /\ Len(v.s) > 0 /\ Head(v.s) = "<"

LongCensoredText == Str(<<"<", "a", "b", "c", "1", ".", "0", "x", "y", "z">>)

\* C5: a text that starts with "<" is mapped to half the number left after
\* deleting every character that is neither a digit nor a dot ("<1.0" and
\* "<abc1.0xyz" both give 0.5), to None when what is left is not a number;
\* every other value is returned as it is.
C5_ConvertLessThan ==
    ret # Unset =>
        /\ ~Censored(value) => ret = value
        /\ Censored(value) =>
             LET kept  == KeepNumeric(value.s)
                 valid == /\ \E i \in 1..Len(kept) : kept[i] \in Digits
                          /\ Cardinality({i \in 1..Len(kept) : kept[i] = "."}) <= 1
             IN  /\ ~valid => ret = None
                 /\ valid =>
                      /\ ret.t = "num"
                      /\ 2 * ret.n * Pow10(DigitsAfterDot(kept))
                            = PlaceValueSum(kept) * ret.d
        /\ value = Str(<<"<", "1", ".", "0">>) => ret = Num(1, 2)
        /\ value = LongCensoredText => ret = Num(1, 2)

C5_Witness == value = LongCensoredText /\ ret = Num(1, 2)

(***************************************************************************)
(* Properties of preprocess_data, checked under Spec.                      *)
(***************************************************************************)
RangeIndex(n) == [i \in 1..n |-> i - 1]

IndicatorColumns(t) == {c \in Columns(t) : c[1] = "Water Control Zone_"}

IsFinite(c) == c.t \in {"f64", "frac"}

\* C3, as claimed: every entry of the returned feature matrix is a finite
\* number.
C3_AllEntriesFinite ==
    outcome = "returned" =>
        \A c \in Columns(df_scaled) : \A i \in 1..NRows(df_scaled) :
            IsFinite(df_scaled.cols[c][i])

\* C4: the returned feature matrix has as many rows as the raw table, and
\* so has the working table after every step.
C4_RowCountPreserved ==
    /\ pc # "idle" =>
         /\ NRows(df) = NRows(raw)
         /\ \A c \in Columns(df) : Len(df.cols[c]) = NRows(raw)
    /\ outcome = "returned" =>
         /\ NRows(df_scaled) = NRows(raw)
         /\ \A c \in Columns(df_scaled) : Len(df_scaled.cols[c]) = NRows(raw)

C4_Witness ==
    /\ outcome = "returned"
    /\ NRows(raw) >= 3
    /\ raw.index # RangeIndex(NRows(raw))
    /\ \E c \in Columns(df_scaled) : \E i \in 1..NRows(df_scaled) :
          df_scaled.cols[c][i].t = "nan"

ScenarioZone    == <<Str(<<"A">>), Str(<<"B">>), Str(<<"A">>)>>
ScenarioStation == <<Str(<<"S", "1">>), Str(<<"S", "1">>), Str(<<"S", "2">>)>>
ScenarioDepth   == <<Str(SurfaceWater), Str(BottomWater), Str(MiddleWater)>>
ScenarioMeasure == <<Str(<<"<", "2">>), Str(<<"4">>), Str(<<"6">>)>>

IsScenario(t) ==
    /\ t.index = RangeIndex(3)
    /\ t.cols[ColZone] = ScenarioZone
    /\ t.cols[ColStation] = ScenarioStation
    /\ t.cols[ColDepth] = ScenarioDepth
    /\ t.cols[ColMeasure] = ScenarioMeasure

AllDigits(s) == Len(s) > 0 /\ \A i \in 1..Len(s) : s[i] \in Digits

SkewnessExceedsOne(sk) ==
    /\ ~sk.nan
    /\ sk.s3 > 0
    /\ FracLess(sk.s2, sk.s3, sk.n * sk.s3, sk.s2 * sk.s2)

SkewCorrected == pc \in {"scale", "done"} /\ df_numeric # NoTable

\* C7: log(1+x) is applied to a column exactly when its skewness is above
\* 1; a column whose skewness is at most 1 or undefined reaches the
\* scaling step unchanged.
C7_LogOnlyAboveThreshold ==
    SkewCorrected =>
        \A c \in Columns(df) :
            LET sk == skew(df.cols[c])
            IN  /\ c \in high_skew_cols <=> SkewnessExceedsOne(sk)
                /\ SkewnessExceedsOne(sk) =>
                     \A i \in 1..NRows(df) :
                        df_numeric.cols[c][i] = log1p(df.cols[c][i])
                /\ ~SkewnessExceedsOne(sk) => df_numeric.cols[c] = df.cols[c]

C7_Witness ==
    /\ SkewCorrected
    /\ \E c \in Columns(df) :
          /\ c \in high_skew_cols
          /\ \E i \in 1..NRows(df) : df_numeric.cols[c][i].t = "log1p"
    /\ \E c \in Columns(df) :
          LET sk == skew(df.cols[c])
          IN  ~sk.nan /\ sk.s3 > 0 /\ c \notin high_skew_cols
    /\ \E c \in Columns(df) :
          skew(df.cols[c]).nan /\ df_numeric.cols[c] = df.cols[c]

\* A scaled cell is 0, is 1, lies in [0, 1]: a double m * 2^e is below 1
\* when m has at most -e bits.
IsZero(c) == c.t = "f64" /\ c.n = 0
IsOne(c)  == c.t = "f64" /\ c.n = 1 /\ c.s = <<1>> /\ c.d = 0
InUnitInterval(c) ==
    \/ c.t = "frac"
    \/ IsZero(c)
    \/ IsOne(c)
    \/ c.t = "f64" /\ c.n = 1 /\ BitLen(c.s) + c.d <= 0

\* C8, as claimed: in every column of the returned matrix whose values are
\* not all equal, the smallest value is exactly 0 and the largest exactly
\* 1, at the rows where that column itself is smallest and largest before
\* scaling.
C8_MinMaxScaled ==
    outcome = "returned" =>
        \A c \in Columns(df_scaled) :
            LET before == df_numeric.cols[c]
                after  == df_scaled.cols[c]
                obs    == {i \in 1..Len(before) : before[i].t # "nan"}
            IN  (\E i, j \in obs : before[i] # before[j]) =>
                    \A i \in obs :
                        /\ InUnitInterval(after[i])
                        /\ (\A j \in obs : ~RLess(Arg(before[j]), Arg(before[i])))
                               => IsZero(after[i])
                        /\ (\A j \in obs : ~RLess(Arg(before[i]), Arg(before[j])))
                               => IsOne(after[i])

IdColumns == {ColSampleNo, ColDates}

\* C9, as claimed: a table without the identifier or date column goes
\* through and they are never in the output; a table without one of the
\* three required columns ends in a KeyError and returns nothing.
C9_SchemaAsClaimed ==
    pc = "done" =>
        /\ RequiredColumns \subseteq Columns(raw) => outcome # "KeyError"
        /\ outcome = "returned" => Columns(df_scaled) \cap IdColumns = {}
        /\ ~(RequiredColumns \subseteq Columns(raw)) =>
              outcome = "KeyError" /\ df_scaled = NoTable

\* C9, amended: as claimed for a table with at least one row and for a
\* table without the zone column; a table with no rows that has the zone
\* column ends in the encoder's ValueError whatever else it lacks.
C9_SchemaAmended ==
    pc = "done" =>
        /\ RequiredColumns \subseteq Columns(raw) => outcome # "KeyError"
        /\ outcome = "returned" =>
              /\ Columns(df_scaled) \cap IdColumns = {}
              /\ RequiredColumns \subseteq Columns(raw)
        /\ ~(RequiredColumns \subseteq Columns(raw)) =>
              /\ df_scaled = NoTable
              /\ IF NRows(raw) > 0 \/ ColZone \notin Columns(raw)
                 THEN outcome = "KeyError"
                 ELSE outcome = "ValueError"

C9_Witness ==
    /\ pc = "done"
    /\ outcome = "KeyError"
    /\ NRows(raw) > 0
    /\ Columns(raw) = AllColumns \ {ColDepth}

(***************************************************************************)
(* Properties of perform_clustering, checked under SpecCluster.            *)
(***************************************************************************)
\* C1, as claimed: a call with an unrecognised algorithm always returns
\* the tuple of five absent fields and never raises.
C1_UnknownReturnsNoResult ==
    (cpc = "done" /\ args.v.algorithm \notin Recognised) =>
        coutcome = "returned" /\ result = Some(NoResult)

\* C2, as claimed: once a recognised algorithm has produced labels the call
\* returns with the projected points and the labels, and both scores are
\* -1 exactly when fewer than two distinct labels came out.
C2_SentinelIffDegenerate ==
    (cpc = "done" /\ labels.some) =>
        /\ coutcome = "returned"
        /\ result.v.df_pca = df_pca
        /\ result.v.labels = labels
        /\ (result.v.silhouette = Some(Sentinel) /\ result.v.db_index = Some(Sentinel))
              <=> Cardinality(DistinctLabels(labels.v)) < 2

\* C10: a result for a recognised algorithm carries cluster centers exactly
\* for K-Means, Mean Shift and Gaussian Mixture and None for the seven
\* others, degenerate labelling or not, and one clustering model has been
\* fitted.
C10_CentersByAlgorithm ==
    (coutcome = "returned" /\ args.v.algorithm \in Recognised) =>
        /\ args.v.algorithm \in {"K-Means", "Mean Shift", "Gaussian Mixture"} =>
              /\ result.v.cluster_centers.some
              /\ result.v.cluster_centers.v.n >= 1
        /\ args.v.algorithm \in {"DBSCAN", "Agglomerative Clustering", "OPTICS",
                                 "HDBSCAN", "Affinity Propagation", "BIRCH",
                                 "Spectral Clustering"} =>
              result.v.cluster_centers = Absent
        /\ fitted = <<args.v.algorithm>>

C10_Witness ==
    /\ coutcome = "returned"
    /\ args.v.algorithm = "Gaussian Mixture"
    /\ Cardinality(DistinctLabels(labels.v)) = 1
    /\ result.v.cluster_centers.some
    /\ result.v.silhouette = Some(Sentinel)

=============================================================================
